---- MODULE Spec2Model ----
(***************************************************************************)
(* Legacy table scanner (src/app/main.py): the four regular expressions    *)
(* built from tables.json, find_table_usage, classify_issue,               *)
(* get_line_snippet and the /remediate-tables handler.                     *)
(*                                                                         *)
(* Text is a sequence of one-character strings.  Offsets are Python's:     *)
(* 0-based, the character at offset p is t[p + 1], a span is [start, end). *)
(* An Optional value is a sequence of length at most one: << >> is None.   *)
(***************************************************************************)
EXTENDS Integers, Sequences, FiniteSets, TLC

VARIABLES TABLE_MAP, units, pc, ui, raw_matches, matches, all_issues

vars == <<TABLE_MAP, units, pc, ui, raw_matches, matches, all_issues>>

(***************************************************************************)
(* Characters                                                              *)
(***************************************************************************)
NL == "\n"

UpperLetters == {"A","B","C","D","E","F","G","H","I","J","K","L","M",
                 "N","O","P","Q","R","S","T","U","V","W","X","Y","Z"}

LowerLetters == {"a","b","c","d","e","f","g","h","i","j","k","l","m",
                 "n","o","p","q","r","s","t","u","v","w","x","y","z"}

Digits == {"0","1","2","3","4","5","6","7","8","9"}

UpperOf == [c \in LowerLetters |->
    CASE c = "a" -> "A" [] c = "b" -> "B" [] c = "c" -> "C" [] c = "d" -> "D"
      [] c = "e" -> "E" [] c = "f" -> "F" [] c = "g" -> "G" [] c = "h" -> "H"
      [] c = "i" -> "I" [] c = "j" -> "J" [] c = "k" -> "K" [] c = "l" -> "L"
      [] c = "m" -> "M" [] c = "n" -> "N" [] c = "o" -> "O" [] c = "p" -> "P"
      [] c = "q" -> "Q" [] c = "r" -> "R" [] c = "s" -> "S" [] c = "t" -> "T"
      [] c = "u" -> "U" [] c = "v" -> "V" [] c = "w" -> "W" [] c = "x" -> "X"
      [] c = "y" -> "Y" [] c = "z" -> "Z"]

\* str.upper() on one character, and on a string
UpperChar(c) == IF c \in LowerLetters THEN UpperOf[c] ELSE c

Upper(s) == [k \in 1..Len(s) |-> UpperChar(s[k])]

\* \w, \s and the bracket classes the patterns use
WordChars == UpperLetters \cup LowerLetters \cup Digits \cup {"_"}

IsWord(c) == c \in WordChars

IsSpace(c) == c \in {" ", NL, "\t", "\r"}

InClass(cls, c) ==
    CASE cls = "any"     -> TRUE                          \* [\s\S]
      [] cls = "space"   -> IsSpace(c)                    \* \s
      [] cls = "wordhy"  -> IsWord(c) \/ c = "-"          \* [\w\-]
      [] cls = "token"   -> IsWord(c) \/ c \in {"-", ">"} \* [\w\-\>]

\* \b at offset p of t
WordBoundary(t, p) ==
    LET before == p >= 1 /\ IsWord(t[p])
        after  == p < Len(t) /\ IsWord(t[p + 1])
    IN  before # after

\* str.count("\n") of t[:p]
CountNL(t, p) == Cardinality({k \in 1..p : t[k] = NL})

(***************************************************************************)
(* Pattern items.  A pattern is a sequence of items; the matcher below     *)
(* tries them in the order a backtracking engine does.                     *)
(***************************************************************************)
Lit(s)            == [type |-> "lit", s |-> s]
WB                == [type |-> "wb"]
Rep(cls, min, gr) == [type |-> "rep", cls |-> cls, min |-> min, greedy |-> gr]
Alt(alts)         == [type |-> "alt", alts |-> alts]
Open(g)           == [type |-> "open", g |-> g]
Close(g)          == [type |-> "close", g |-> g]

Unset == <<-1, -1>>

\* the named groups, and the two unnamed ones by their number: group 3 of
\* the DML pattern (the connector), group 2 of the ASSIGN pattern
NoGroups == [full |-> Unset, stmt |-> Unset, obj |-> Unset, obj2 |-> Unset,
             g2 |-> Unset, g3 |-> Unset]

NoMatch == [ok |-> FALSE, end |-> -1, groups |-> NoGroups]

\* a literal under re.IGNORECASE at offset p
LitMatches(t, p, s) ==
    /\ p + Len(s) <= Len(t)
    /\ \A k \in 1..Len(s) : UpperChar(t[p + k]) = UpperChar(s[k])

\* the offset at which the run of class cls starting at p stops
RECURSIVE RunEnd(_, _, _)
RunEnd(t, p, cls) ==
    IF p < Len(t) /\ InClass(cls, t[p + 1]) THEN RunEnd(t, p + 1, cls) ELSE p

RECURSIVE Match(_, _, _, _, _, _), TryAlt(_, _, _, _, _, _), TryRep(_, _, _, _, _, _, _, _)
\* the first way, in backtracking order, to match items[i..] and then what
\* follows the enclosing alternations (then), from offset p
Match(t, items, i, then, p, groups) ==
    IF i > Len(items)
    THEN IF Len(then) = 0 THEN [ok |-> TRUE, end |-> p, groups |-> groups]
         ELSE Match(t, then[1].items, then[1].i, Tail(then), p, groups)
    ELSE LET it == items[i]
         IN CASE it.type = "rep" ->
                   LET lo == p + it.min
                       hi == RunEnd(t, p, it.cls)
                   IN  IF hi < lo THEN NoMatch
                       ELSE IF it.greedy
                            THEN TryRep(t, items, i + 1, then, hi, lo, -1, groups)
                            ELSE TryRep(t, items, i + 1, then, lo, hi, 1, groups)
              [] it.type = "lit" ->
                   IF LitMatches(t, p, it.s)
                   THEN Match(t, items, i + 1, then, p + Len(it.s), groups) ELSE NoMatch
              [] it.type = "wb" ->
                   IF WordBoundary(t, p) THEN Match(t, items, i + 1, then, p, groups)
                   ELSE NoMatch
              [] it.type = "alt" ->
                   TryAlt(t, it.alts, 1, <<[items |-> items, i |-> i + 1]>> \o then, p, groups)
              [] it.type = "open" ->
                   Match(t, items, i + 1, then, p, [groups EXCEPT ![it.g] = <<p, -1>>])
              [] it.type = "close" ->
                   Match(t, items, i + 1, then, p,
                         [groups EXCEPT ![it.g] = <<groups[it.g][1], p>>])

\* alternatives left to right
TryAlt(t, alts, k, then, p, groups) ==
    IF k > Len(alts) THEN NoMatch
    ELSE LET r == Match(t, alts[k], 1, then, p, groups)
         IN  IF r.ok THEN r ELSE TryAlt(t, alts, k + 1, then, p, groups)

\* a repetition stopping at j, then the next stop towards last
TryRep(t, items, i, then, j, last, step, groups) ==
    LET r == Match(t, items, i, then, j, groups)
    IN  IF r.ok THEN r
        ELSE IF j = last THEN NoMatch
        ELSE TryRep(t, items, i, then, j + step, last, step, groups)

(***************************************************************************)
(* tables.json and the patterns built from it                              *)
(***************************************************************************)
\* re.escape: a backslash before every character that is not a word character
RECURSIVE Escape(_)
Escape(s) ==
    IF Len(s) = 0 THEN << >>
    ELSE (IF IsWord(Head(s)) THEN <<Head(s)>> ELSE <<"\\", Head(s)>>) \o Escape(Tail(s))

\* the literal an escaped string stands for inside a pattern
RECURSIVE Unescape(_)
Unescape(s) ==
    IF Len(s) = 0 THEN << >>
    ELSE IF Head(s) = "\\" /\ Len(s) >= 2 THEN <<s[2]>> \o Unescape(Tail(Tail(s)))
    ELSE <<Head(s)>> \o Unescape(Tail(s))

\* list(TABLE_MAP.keys()): the keys in file order
OLD_TABLES == [k \in 1..Len(TABLE_MAP) |-> TABLE_MAP[k].key]

\* sorted(..., key=len, reverse=True): stable, longest first
RECURSIVE InsertByLen(_, _)
InsertByLen(sorted, x) ==
    IF Len(sorted) = 0 THEN <<x>>
    ELSE IF Len(Head(sorted)) >= Len(x) THEN <<Head(sorted)>> \o InsertByLen(Tail(sorted), x)
    ELSE <<x>> \o sorted

RECURSIVE SortByLenDesc(_)
SortByLenDesc(s) ==
    IF Len(s) = 0 THEN << >>
    ELSE InsertByLen(SortByLenDesc(SubSeq(s, 1, Len(s) - 1)), s[Len(s)])

\* the alternatives in file order, not sorted by length
TBL_GROUP_Unsorted == [k \in 1..Len(OLD_TABLES) |-> Escape(OLD_TABLES[k])]

\* the alternatives of TBL_GROUP, in the order "|".join leaves them
TBL_GROUP == SortByLenDesc([k \in 1..Len(OLD_TABLES) |-> Escape(OLD_TABLES[k])])

TblAlt == Alt([k \in 1..Len(TBL_GROUP) |-> <<Lit(Unescape(TBL_GROUP[k]))>>])

kwSELECT == <<"S","E","L","E","C","T">>
kwINSERT == <<"I","N","S","E","R","T">>
kwUPDATE == <<"U","P","D","A","T","E">>
kwDELETE == <<"D","E","L","E","T","E">>
kwMODIFY == <<"M","O","D","I","F","Y">>
kwFROM   == <<"F","R","O","M">>
kwINTO   == <<"I","N","T","O">>
kwCLEAR  == <<"C","L","E","A","R">>

PatternNames == <<"DML", "CLEAR", "ASSIGN", "GENERIC">>

REGEX(name) ==
    CASE name = "DML" ->
           << Open("full"), Open("stmt"),
              Alt(<< <<WB, Lit(kwSELECT), WB>>, <<WB, Lit(kwINSERT), WB>>,
                     <<WB, Lit(kwUPDATE), WB>>, <<WB, Lit(kwDELETE), WB>>,
                     <<WB, Lit(kwMODIFY), WB>> >>),
              Close("stmt"),
              Rep("any", 0, FALSE),
              WB,
              Open("g3"),
              Alt(<< <<Lit(kwFROM)>>, <<Lit(kwINTO)>>, <<Lit(kwUPDATE)>>,
                     <<Lit(kwDELETE), Rep("space", 1, TRUE), Lit(kwFROM)>> >>),
              Close("g3"),
              WB,
              Rep("space", 1, TRUE),
              Open("obj"), TblAlt, Close("obj"),
              WB, Close("full") >>
      [] name = "CLEAR" ->
           << Open("full"), WB, Lit(kwCLEAR), WB, Rep("space", 1, TRUE),
              Open("obj"), TblAlt, Close("obj"), WB,
              Rep("wordhy", 0, TRUE), Close("full") >>
      [] name = "ASSIGN" ->
           << Open("full"), Open("g2"),
              Alt(<< << Open("obj"), TblAlt, Close("obj"), Rep("wordhy", 0, TRUE),
                        Rep("space", 0, TRUE), Lit(<<"=">>), Rep("space", 0, TRUE),
                        Rep("token", 1, TRUE) >>,
                     << Rep("token", 1, TRUE), Rep("space", 0, TRUE), Lit(<<"=">>),
                        Rep("space", 0, TRUE),
                        Open("obj2"), TblAlt, Close("obj2"), Rep("wordhy", 0, TRUE) >> >>),
              Close("g2"), Close("full") >>
      [] name = "GENERIC" ->
           << Open("full"), WB, Open("obj"), TblAlt, Close("obj"), WB, Close("full") >>

\* pattern.finditer(txt): leftmost matches, each search resuming where the last match ended
RECURSIVE finditer(_, _, _)
finditer(t, pattern, from) ==
    IF from > Len(t) THEN << >>
    ELSE LET r == Match(t, pattern, 1, << >>, from, NoGroups)
         IN  IF ~r.ok THEN finditer(t, pattern, from + 1)
             ELSE <<r>> \o finditer(t, pattern, IF r.end > from THEN r.end ELSE from + 1)

(***************************************************************************)
(* find_table_usage                                                        *)
(***************************************************************************)
\* t[a:b]
Slice(t, a, b) == SubSeq(t, a + 1, b)

\* m.group(g): None when the group took no part in the match
Group(t, r, g) == IF r.groups[g] = Unset THEN << >>
                  ELSE <<Slice(t, r.groups[g][1], r.groups[g][2])>>

\* a value Python treats as true
Truthy(opt) == Len(opt) = 1 /\ Len(opt[1]) > 0

\* TABLE_MAP.get(name): the value stored under exactly this key, else None
Lookup(name) ==
    IF \E k \in 1..Len(TABLE_MAP) : TABLE_MAP[k].key = name
    THEN TABLE_MAP[CHOOSE k \in 1..Len(TABLE_MAP) : TABLE_MAP[k].key = name].value
    ELSE << >>

\* every (pattern_name, match) pair in the order the two nested loops visit them
RECURSIVE AllRawMatches(_, _)
AllRawMatches(t, n) ==
    IF n > Len(PatternNames) THEN << >>
    ELSE LET found == finditer(t, REGEX(PatternNames[n]), 0)
         IN  [k \in 1..Len(found) |-> [pattern_name |-> PatternNames[n], m |-> found[k]]]
             \o AllRawMatches(t, n + 1)

\* the dedup key without the pattern family
DedupKey_NoFamily(t, raw, obj) ==
    <<obj, CountNL(t, raw.m.groups["full"][1]) + 1>>

\* the dedup key of one raw match
DedupKey(t, raw, obj) ==
    <<obj, CountNL(t, raw.m.groups["full"][1]) + 1, raw.pattern_name>>

\* the loop body: skip, or append one record and remember its key
RECURSIVE Collect(_, _, _, _, _)
Collect(t, raws, n, seen, acc) ==
    IF n > Len(raws) THEN acc
    ELSE LET raw  == raws[n]
             o1   == Group(t, raw.m, "obj")
             obj  == IF Truthy(o1) THEN o1 ELSE Group(t, raw.m, "obj2")
             key  == DedupKey(t, raw, obj[1])
             span == raw.m.groups["full"]
         IN  IF ~Truthy(obj) THEN Collect(t, raws, n + 1, seen, acc)
             ELSE IF key \in seen THEN Collect(t, raws, n + 1, seen, acc)
             ELSE Collect(t, raws, n + 1, seen \cup {key},
                          Append(acc, [pattern |-> raw.pattern_name,
                                       full |-> Slice(t, span[1], span[2]),
                                       stmt |-> Group(t, raw.m, "stmt"),
                                       object |-> obj[1],
                                       replacement_table |-> Lookup(Upper(obj[1])),
                                       span |-> span]))

\* list.sort(key=span[0]): stable
RECURSIVE InsertByStart(_, _)
InsertByStart(sorted, x) ==
    IF Len(sorted) = 0 THEN <<x>>
    ELSE IF Head(sorted).span[1] <= x.span[1]
         THEN <<Head(sorted)>> \o InsertByStart(Tail(sorted), x)
    ELSE <<x>> \o sorted

\* the records left in the order the loops appended them
SortByStart_Unsorted(s) == s

RECURSIVE SortByStart(_)
SortByStart(s) ==
    IF Len(s) = 0 THEN << >>
    ELSE InsertByStart(SortByStart(SubSeq(s, 1, Len(s) - 1)), s[Len(s)])

\* the list find_table_usage returns (matches), with the raw matches its
\* loops visited before the dedup (found)
find_table_usage(txt) ==
    LET found == AllRawMatches(txt, 1)
    IN  [found |-> found,
         matches |-> SortByStart(Collect(txt, found, 1, {}, << >>))]

(***************************************************************************)
(* get_line_snippet, classify_issue                                        *)
(***************************************************************************)
\* text.rfind("\n", 0, start)
RFindNL(text, start) ==
    LET hits == {k \in 0..(start - 1) : text[k + 1] = NL}
    IN  IF hits = {} THEN -1 ELSE CHOOSE k \in hits : \A j \in hits : j <= k

\* text.find("\n", end)
FindNL(text, end) ==
    LET hits == {k \in end..(Len(text) - 1) : text[k + 1] = NL}
    IN  IF hits = {} THEN -1 ELSE CHOOSE k \in hits : \A j \in hits : k <= j

get_line_snippet(text, start, end) ==
    LET found      == RFindNL(text, start)
        line_start == IF found = -1 THEN 0 ELSE found + 1
        nl         == FindNL(text, end)
        line_end   == IF nl = -1 THEN Len(text) ELSE nl
    IN  Slice(text, line_start, line_end)

\* str.replace("\n", "\\n")
RECURSIVE EscapeNL(_)
EscapeNL(s) ==
    IF Len(s) = 0 THEN << >>
    ELSE (IF Head(s) = NL THEN <<"\\", "n">> ELSE <<Head(s)>>) \o EscapeNL(Tail(s))

\* the classification comparing the keyword as matched, without upper()
IssueKind_NoUpper(pattern_name, stmt) ==
    IF pattern_name = "DML"
    THEN IF stmt = <<kwSELECT>>
         THEN [issue_type |-> "DirectRead", severity |-> "warning"]
         ELSE [issue_type |-> "DisallowedWrite", severity |-> "error"]
    ELSE [issue_type |-> "DirectRead", severity |-> "info"]

\* lines 114-128: issue type and severity
IssueKind(pattern_name, stmt) ==
    LET stmt_upper == Upper(IF Truthy(stmt) THEN stmt[1] ELSE << >>)
    IN  IF pattern_name = "DML"
        THEN IF stmt_upper = kwSELECT
             THEN [issue_type |-> "DirectRead", severity |-> "warning"]
             ELSE [issue_type |-> "DisallowedWrite", severity |-> "error"]
        ELSE [issue_type |-> "DirectRead", severity |-> "info"]

\* the message and suggestion without the branch for a missing replacement
IssueText_NoElse(pattern_name, table_name, replacement) ==
    [message |-> <<"Legacy table ", table_name, " is used in a ",
                   pattern_name, " statement.">>,
     suggestion |-> <<"Use ", replacement, " instead of ", table_name, ".">>]

\* lines 130-138: message and suggestion; an f-string is the sequence of its parts
IssueText(pattern_name, table_name, replacement) ==
    IF Truthy(replacement)
    THEN [message |-> <<"Legacy table ", table_name, " is used in a ",
                        pattern_name, " statement.">>,
          suggestion |-> <<"Use ", replacement[1], " instead of ", table_name, ".">>]
    ELSE [message |-> <<"Legacy table ", table_name,
                        " is used but no replacement mapping is defined.">>,
          suggestion |-> <<"Add an entry in tables.json for this table or refactor to a supported object.">>]

classify_issue(pattern_name, stmt, table_name, replacement) ==
    LET kind == IssueKind(pattern_name, stmt)
        text == IssueText(pattern_name, table_name, replacement)
    IN  [issue_type |-> kind.issue_type, severity |-> kind.severity,
         message |-> text.message, suggestion |-> text.suggestion]

(***************************************************************************)
(* remediate_tables                                                        *)
(***************************************************************************)
\* the line arithmetic with relative line 1 on the unit's own start line
StartLineAbs_MinusOne(base_start, line_in_block) == base_start + line_in_block - 1

StartLineAbs(base_start, line_in_block) == base_start + line_in_block

EndLineAbs(base_start, line_in_block, snippet_line_count) ==
    base_start + line_in_block + snippet_line_count

\* one Issue; unit_no and m are not fields of Issue: they record which unit
\* and which match the issue was built from
IssueOf(u, unit_no, m) ==
    LET src                == u.code
        base_start         == IF Len(u.start_line) = 1 THEN u.start_line[1] ELSE 0
        start              == m.span[1]
        end                == m.span[2]
        line_in_block      == CountNL(src, start) + 1
        snippet_text       == get_line_snippet(src, start, end)
        snippet_line_count == CountNL(snippet_text, Len(snippet_text)) + 1
        start_line_abs     == StartLineAbs(base_start, line_in_block)
        end_line_abs       == EndLineAbs(base_start, line_in_block, snippet_line_count)
        issue_meta         == classify_issue(m.pattern, m.stmt, m.object,
                                             m.replacement_table)
    IN  [pgm_name |-> u.pgm_name, inc_name |-> u.inc_name, type |-> u.type,
         name |-> u.name,
         start_line |-> start_line_abs, end_line |-> end_line_abs,
         issue_type |-> issue_meta.issue_type, severity |-> issue_meta.severity,
         message |-> issue_meta.message, suggestion |-> issue_meta.suggestion,
         snippet |-> EscapeNL(snippet_text),
         unit_no |-> unit_no, m |-> m]

(***************************************************************************)
(* Inputs: tables.json as loaded at import, and the request body           *)
(***************************************************************************)
ZTAB     == <<"Z","T","A","B">>
ZTAB_EXT == <<"Z","T","A","B","_","E","X","T">>
ZBAR     == <<"Z","B","A","R">>
ZBAZ     == <<"Z","B","A","Z">>

NewName(k) == k \o <<"_","N","E","W">>

\* TABLE_MAP is the JSON object: its members in file order, a null value as None
Mappings ==
    { << [key |-> ZTAB,     value |-> <<NewName(ZTAB)>>],
         [key |-> ZTAB_EXT, value |-> <<NewName(ZTAB_EXT)>>],
         [key |-> ZBAR,     value |-> <<NewName(ZBAR)>>] >>,
      << [key |-> <<"z","t","a","b">>, value |-> <<NewName(ZTAB)>>],
         [key |-> ZBAZ,                value |-> << >>] >> }

\* the fragments unit texts are built from
Pieces ==
    { kwSELECT \o <<" ","*"," ">> \o kwFROM \o <<" ">>,
      <<"s","e","l","e","c","t",NL>>,
      kwDELETE \o <<" ">>,
      kwFROM \o <<" ">>,
      kwCLEAR \o <<" ">>,
      kwCLEAR \o <<" ">> \o ZBAR \o <<".">>,
      ZTAB, ZTAB_EXT, ZBAR, ZBAZ,
      <<"X">>, <<"=">>, <<".">> }

\* a request is written as a sequence of parts: a unit header opens a unit
\* and the text parts after it are its code.  The first unit declares
\* start_line 100, the later ones declare none.
MaxParts == 4

TextPart(p) == [kind |-> "text", chars |-> p, start_line |-> << >>]
UnitPart(s) == [kind |-> "unit", chars |-> << >>, start_line |-> s]

Parts == {TextPart(p) : p \in Pieces} \cup {UnitPart(<< >>)}

RequestBodies ==
    {<< >>} \cup
    UNION { { <<UnitPart(<<100>>)>> \o r : r \in [1..n -> Parts] } : n \in 0..(MaxParts - 1) }

RECURSIVE UnitsOf(_)
UnitsOf(body) ==
    IF Len(body) = 0 THEN << >>
    ELSE LET before == UnitsOf(SubSeq(body, 1, Len(body) - 1))
             part   == body[Len(body)]
         IN  IF part.kind = "unit"
             THEN Append(before, [pgm_name |-> "ZPROG", inc_name |-> "ZINC",
                                  type |-> "FORM", name |-> << >>,
                                  start_line |-> part.start_line, code |-> << >>])
             ELSE [before EXCEPT ![Len(before)].code = @ \o part.chars]

(***************************************************************************)
(* The handler                                                             *)
(***************************************************************************)
Init ==
    /\ TABLE_MAP \in Mappings
    /\ units \in {UnitsOf(b) : b \in RequestBodies}
    /\ pc = "loop"
    /\ ui = 1
    /\ raw_matches = << >>
    /\ matches = << >>
    /\ all_issues = << >>

\* one turn of `for u in units`: scan the unit and append its issues
RemediateUnit ==
    /\ pc = "loop"
    /\ ui <= Len(units)
    /\ LET u     == units[ui]
           src   == u.code
           usage == find_table_usage(src)
       IN  /\ raw_matches' = usage.found
           /\ matches' = usage.matches
           /\ all_issues' = all_issues \o
                  [k \in 1..Len(usage.matches) |-> IssueOf(u, ui, usage.matches[k])]
    /\ ui' = ui + 1
    /\ UNCHANGED <<TABLE_MAP, units, pc>>

\* return all_issues
Return ==
    /\ pc = "loop"
    /\ ui > Len(units)
    /\ pc' = "done"
    /\ UNCHANGED <<TABLE_MAP, units, ui, raw_matches, matches, all_issues>>

Next == RemediateUnit \/ Return

Spec == Init /\ [][Next]_vars

(***************************************************************************)
(* Vocabulary of the properties                                            *)
(***************************************************************************)
\* a unit has been scanned; LastUnit is that unit, matches is what
\* find_table_usage returned for its code
Scanned  == ui > 1
LastUnit == units[ui - 1]
LastCode == LastUnit.code

Keys == {TABLE_MAP[k].key : k \in 1..Len(TABLE_MAP)}

\* 1-based line of offset p of text t
LineOf(t, p) == 1 + Cardinality({k \in 1..p : t[k] = NL})

\* s occurs at offset p of t, in any letter case, with no word character
\* directly before or after it
WholeWordAt(t, p, s) ==
    /\ LitMatches(t, p, s)
    /\ p = 0 \/ ~IsWord(t[p])
    /\ p + Len(s) = Len(t) \/ ~IsWord(t[p + Len(s) + 1])

OccursAsWholeWord(t, s) == \E p \in 0..Len(t) : WholeWordAt(t, p, s)

\* the identifier a raw match captured, and where
RawObjSpan(r) == IF r.m.groups["obj"] # Unset THEN r.m.groups["obj"] ELSE r.m.groups["obj2"]
RawObj(t, r)  == Slice(t, RawObjSpan(r)[1], RawObjSpan(r)[2])

\* the raw match a record of matches was built from
BuiltFrom(m, r) == r.pattern_name = m.pattern /\ r.m.groups["full"] = m.span

Kept(r) == \E k \in 1..Len(matches) : BuiltFrom(matches[k], r)

\* the issues built from the unit scanned last
LastIssues == SelectSeq(all_issues, LAMBDA i : i.unit_no = ui - 1)

Kind(i) == <<i.issue_type, i.severity>>

UnmappedMessage(table_name) ==
    <<"Legacy table ", table_name, " is used but no replacement mapping is defined.">>

AddMappingSuggestion ==
    <<"Add an entry in tables.json for this table or refactor to a supported object.">>

TriggerKeywords == {kwSELECT, kwINSERT, kwUPDATE, kwDELETE, kwMODIFY}
WriteKeywords   == {kwINSERT, kwUPDATE, kwDELETE, kwMODIFY}

LowerChar(c) == IF c \in UpperLetters THEN CHOOSE l \in LowerLetters : UpperOf[l] = c ELSE c

\* a keyword in upper case, in lower case, and capitalised
Spellings(kw) ==
    { kw, [k \in 1..Len(kw) |-> LowerChar(kw[k])],
      [k \in 1..Len(kw) |-> IF k = 1 THEN kw[k] ELSE LowerChar(kw[k])] }

\* the texts of the scenarios
SP == <<" ">>
TxtDeleteFromZbar    == kwDELETE \o SP \o kwFROM \o SP \o ZBAR
TxtClearZbaz         == kwCLEAR \o SP \o ZBAZ \o <<".">>
TxtSelectFromZtabExt == kwSELECT \o <<" ", "*", " ">> \o kwFROM \o SP \o ZTAB_EXT

(***************************************************************************)
(* C1: a text in which no key of the mapping occurs as a whole word yields *)
(* an empty list from find_table_usage.                                    *)
(***************************************************************************)
C1_Claim ==
    (Scanned /\ \A key \in Keys : ~OccursAsWholeWord(LastCode, key))
        => matches = << >>

(***************************************************************************)
(* C2: for a unit with a declared start_line S, an issue whose match       *)
(* starts on relative line r reports start_line S + r - 1 (the statement   *)
(* as claimed), respectively S + r (what the handler computes).            *)
(***************************************************************************)
C2_Original ==
    \A k \in 1..Len(all_issues) :
        LET i == all_issues[k]
            u == units[i.unit_no]
        IN  Len(u.start_line) = 1
                => i.start_line = u.start_line[1] + LineOf(u.code, i.m.span[1]) - 1

\* C2 as amended: the reported start_line is S + r; with S = 100 and a match
\* on the first line it is 101
C2_Amended ==
    \A k \in 1..Len(all_issues) :
        LET i == all_issues[k]
            u == units[i.unit_no]
        IN  Len(u.start_line) = 1
                => i.start_line = u.start_line[1] + LineOf(u.code, i.m.span[1])

C2_Witness ==
    \E k \in 1..Len(all_issues) :
        LET i == all_issues[k]
            u == units[i.unit_no]
        IN  /\ u.start_line = <<100>>
            /\ LineOf(u.code, i.m.span[1]) = 1
            /\ i.start_line = 101

(***************************************************************************)
(* C3: with ZBAZ absent from the mapping, "CLEAR ZBAZ." yields a record    *)
(* for ZBAZ with no replacement and an issue with the unmapped message     *)
(* (the statement as claimed).                                             *)
(***************************************************************************)
C3_Original ==
    (Scanned /\ LastCode = TxtClearZbaz /\ ZBAZ \notin Keys)
        => /\ \E k \in 1..Len(matches) :
                  matches[k].object = ZBAZ /\ matches[k].replacement_table = << >>
           /\ \E k \in 1..Len(LastIssues) :
                  /\ LastIssues[k].message = UnmappedMessage(ZBAZ)
                  /\ LastIssues[k].suggestion = AddMappingSuggestion

\* C3 as amended: an identifier is reported only if it is a key of the
\* mapping (in some letter case); a record whose replacement is absent is
\* still turned into an issue, one per record, and that issue carries the
\* unmapped message and the add-a-mapping suggestion; with ZBAZ a key whose
\* value is null, "CLEAR ZBAZ." yields such a record for ZBAZ
C3_Amended ==
    /\ \A k \in 1..Len(matches) :
           \E key \in Keys : Upper(key) = Upper(matches[k].object)
    /\ Scanned => Len(LastIssues) = Len(matches)
    /\ \A k \in 1..Len(all_issues) :
           all_issues[k].m.replacement_table = << >>
               => /\ all_issues[k].message = UnmappedMessage(all_issues[k].m.object)
                  /\ all_issues[k].suggestion = AddMappingSuggestion
    /\ (Scanned /\ LastCode = TxtClearZbaz /\ [key |-> ZBAZ, value |-> << >>] \in
            {TABLE_MAP[k] : k \in 1..Len(TABLE_MAP)})
           => \E k \in 1..Len(LastIssues) :
                  /\ LastIssues[k].m.pattern = "CLEAR"
                  /\ LastIssues[k].m.object = ZBAZ
                  /\ LastIssues[k].m.replacement_table = << >>

C3_Witness ==
    /\ Scanned
    /\ LastCode = TxtClearZbaz
    /\ [key |-> ZBAZ, value |-> << >>] \in {TABLE_MAP[k] : k \in 1..Len(TABLE_MAP)}
    /\ \E k \in 1..Len(LastIssues) :
           /\ LastIssues[k].m.pattern = "CLEAR"
           /\ LastIssues[k].m.object = ZBAZ
           /\ LastIssues[k].message = UnmappedMessage(ZBAZ)
           /\ LastIssues[k].suggestion = AddMappingSuggestion

(***************************************************************************)
(* C4: classify_issue follows the classification table whatever the letter *)
(* case of the keyword: DML with SELECT is (DirectRead, warning), DML with *)
(* INSERT, UPDATE, DELETE or MODIFY is (DisallowedWrite, error), CLEAR,    *)
(* ASSIGN and GENERIC are (DirectRead, info); every issue of               *)
(* remediate_tables carries the pair the table gives for its match; and    *)
(* "DELETE FROM ZBAR" with ZBAR mapped yields a (DisallowedWrite, error).  *)
(***************************************************************************)
TableKind(family, stmt) ==
    IF family = "DML"
    THEN IF stmt # << >> /\ Upper(stmt[1]) = kwSELECT THEN <<"DirectRead", "warning">>
         ELSE IF stmt # << >> /\ Upper(stmt[1]) \in WriteKeywords
              THEN <<"DisallowedWrite", "error">>
         ELSE <<"none", "none">>
    ELSE <<"DirectRead", "info">>

\* the table, asked of classify_issue itself for each spelling of each keyword
C4_Table ==
    \A kw \in TriggerKeywords : \A s \in Spellings(kw) :
    \A replacement \in {<< >>, <<NewName(ZBAR)>>} :
        /\ Kind(classify_issue("DML", <<s>>, ZBAR, replacement))
               = IF kw = kwSELECT THEN <<"DirectRead", "warning">>
                 ELSE <<"DisallowedWrite", "error">>
        /\ \A family \in {"CLEAR", "ASSIGN", "GENERIC"} :
               /\ Kind(classify_issue(family, <<s>>, ZBAR, replacement))
                      = <<"DirectRead", "info">>
               /\ Kind(classify_issue(family, << >>, ZBAR, replacement))
                      = <<"DirectRead", "info">>

C4_Classification ==
    /\ C4_Table
    /\ \A k \in 1..Len(all_issues) :
           /\ Kind(all_issues[k]) = TableKind(all_issues[k].m.pattern, all_issues[k].m.stmt)
           /\ Kind(all_issues[k]) \in { <<"DirectRead", "warning">>,
                                        <<"DisallowedWrite", "error">>,
                                        <<"DirectRead", "info">> }
    /\ (Scanned /\ LastCode = TxtDeleteFromZbar /\ ZBAR \in Keys)
           => \E k \in 1..Len(LastIssues) :
                  Kind(LastIssues[k]) = <<"DisallowedWrite", "error">>

C4_Witness ==
    /\ Scanned
    /\ LastCode = TxtDeleteFromZbar
    /\ ZBAR \in Keys
    /\ \E k \in 1..Len(LastIssues) :
           /\ LastIssues[k].m.pattern = "DML"
           /\ LastIssues[k].m.stmt = <<kwDELETE>>
           /\ LastIssues[k].m.object = ZBAR
           /\ Kind(LastIssues[k]) = <<"DisallowedWrite", "error">>

(***************************************************************************)
(* C5: the list find_table_usage returns is sorted by non-decreasing start *)
(* offset whatever family produced each record; in all_issues the issues   *)
(* of one unit are contiguous, the units in input order, and the issues of *)
(* a unit are its records in that same order.                              *)
(***************************************************************************)
PatternIndex(name) == CHOOSE n \in 1..Len(PatternNames) : PatternNames[n] = name

C5_Ordering ==
    /\ \A k \in 1..(Len(matches) - 1) : matches[k].span[1] <= matches[k + 1].span[1]
    /\ \A k \in 1..(Len(all_issues) - 1) :
           LET a == all_issues[k]
               b == all_issues[k + 1]
           IN  \/ a.unit_no < b.unit_no
               \/ a.unit_no = b.unit_no /\ a.m.span[1] <= b.m.span[1]
    /\ Scanned =>
           /\ Len(all_issues) >= Len(matches)
           /\ \A k \in 1..Len(matches) :
                  LET i == all_issues[Len(all_issues) - Len(matches) + k]
                  IN  i.unit_no = ui - 1 /\ i.m = matches[k]

\* a record of a later family stands before a record of an earlier family
\* that starts further right: the sort has moved it
C5_Witness ==
    /\ Scanned
    /\ \E k, l \in 1..Len(matches) :
           /\ k < l
           /\ PatternIndex(matches[k].pattern) > PatternIndex(matches[l].pattern)
           /\ matches[k].span[1] < matches[l].span[1]
    /\ Len(LastIssues) = Len(matches)

(***************************************************************************)
(* C6: no two records of the returned list share the matched identifier    *)
(* text, the line of the match start and the family; of the raw matches    *)
(* with one such key the first in scan order is the one kept; and every    *)
(* key a raw match has keeps its record, so the families report the same   *)
(* identifier on the same line as separate records.                        *)
(***************************************************************************)
RecordKey(t, m) == <<m.object, LineOf(t, m.span[1]), m.pattern>>

RawKey(t, r) == <<RawObj(t, r), LineOf(t, r.m.groups["full"][1]), r.pattern_name>>

C7_Claim ==
    \A k \in 1..Len(matches) : \A e \in 1..Len(TABLE_MAP) :
        Upper(TABLE_MAP[e].key) = Upper(matches[k].object)
            => matches[k].replacement_table = TABLE_MAP[e].value

(***************************************************************************)
(* C8: where a match captured its identifier, no longer key of which the   *)
(* captured identifier is a prefix occurs at that offset, in any of the    *)
(* four families; "SELECT * FROM ZTAB_EXT" with ZTAB and ZTAB_EXT mapped   *)
(* reports ZTAB_EXT in every record.                                       *)
(***************************************************************************)
IsProperPrefix(short, long) ==
    /\ Len(short) < Len(long)
    /\ Upper(short) = Upper(SubSeq(long, 1, Len(short)))

C8_LongestMatch ==
    Scanned =>
        /\ \A n \in 1..Len(raw_matches) :
               LET r   == raw_matches[n]
                   obj == RawObj(LastCode, r)
               IN  \A key \in Keys :
                       IsProperPrefix(obj, key)
                           => ~LitMatches(LastCode, RawObjSpan(r)[1], key)
        /\ (LastCode = TxtSelectFromZtabExt /\ ZTAB \in Keys /\ ZTAB_EXT \in Keys)
               => /\ matches # << >>
                  /\ \A k \in 1..Len(matches) : matches[k].object = ZTAB_EXT

C8_Witness ==
    /\ Scanned
    /\ LastCode = TxtSelectFromZtabExt
    /\ ZTAB \in Keys /\ ZTAB_EXT \in Keys
    /\ \E k \in 1..Len(matches) : matches[k].pattern = "DML" /\ matches[k].object = ZTAB_EXT
    /\ \E k \in 1..Len(matches) : matches[k].pattern = "GENERIC" /\ matches[k].object = ZTAB_EXT

(***************************************************************************)
(* C9: for every issue end_line - start_line is the number of line breaks  *)
(* inside the span of its match, so a match on one line reports end_line   *)
(* equal to start_line.                                                    *)
(***************************************************************************)
C9_Claim ==
    \A k \in 1..Len(all_issues) :
        LET i    == all_issues[k]
            code == units[i.unit_no].code
        IN  i.end_line - i.start_line
                = LineOf(code, i.m.span[2]) - LineOf(code, i.m.span[1])

(***************************************************************************)
(* C10: in a DML record no other trigger keyword stands as a whole word    *)
(* between the captured statement keyword and the connector before the     *)
(* identifier.                                                             *)
(***************************************************************************)
C10_Claim ==
    Scanned =>
        \A n \in 1..Len(raw_matches) :
            LET r         == raw_matches[n]
                stmt_end  == r.m.groups["stmt"][2]
                connector == r.m.groups["g3"][1]
            IN  (r.pattern_name = "DML" /\ Kept(r))
                    => \A kw \in TriggerKeywords :
                       \A p \in stmt_end..(connector - Len(kw)) :
                           ~WholeWordAt(LastCode, p, kw)

====
